---- MODULE Spec2Model ----
(***************************************************************************)
(* MetaDepot: the listing compiler (ListingsBuilder), its incremental      *)
(* synchronisation with a depot (syncWithDepot), the WebDAV depot's        *)
(* directory creation and downloads (WebDAVDepotManager), the main         *)
(* script's map over the upstream NeoForge versions (isSafePath), the      *)
(* depots' download and getJSON, and the promise cache of VersionsApi.     *)
(*                                                                         *)
(* Every asynchronous function is cut at its awaits: one action per        *)
(* synchronous segment, so the interleavings of the model are those of the *)
(* single-threaded event loop.                                             *)
(***************************************************************************)
EXTENDS Integers, Sequences, FiniteSets, TLC

\* ------------------------------------------------------------------ bounds
MaxListings == 2      \* listings a host registers in one run
MaxRuns == 2          \* process runs against the same depot
MaxFaults == 1        \* failing depot/filesystem/compilation operations per run
MaxUploads == 2       \* upload calls made on one WebDAVDepotManager

\* --------------------------------------------------------------- constants
DEPOT_INDEX_PATH == ".depot-index.json"

\* compressionExtensions, in the insertion order Object.values() returns
compressionExtensions == [brotli |-> "br", gzip |-> "gz"]
CompressionTypes == <<"brotli", "gzip">>

\* Logical listing names a host may pick; NameOrder is their localeCompare order.
NameOrder == <<"a", "b", "index", "neoforge/../etc/passwd", "neoforge/1.20.1",
               "neoforge/21.1.72-beta", "neoforge/a/b">>
Names == {"a", "b", "index"}
\* Host payloads: two JSON objects of equal length and different content.
Payloads == {1, 2}

VARIABLES
  run,          \* number of the current process run; also its referenceDate
  listings,     \* ListingsBuilder.listings: entries in insertion order
  tasks,        \* running writeListingAsync invocations
  files,        \* the destination folder: path -> Buffer
  thrown,       \* writeListing threw: the uncaught exception ends the process
  finishPc,     \* position of finish()
  finishSnap,   \* the promises finish() is awaiting (a prefix of listings)
  sync,         \* the frame of syncWithDepot
  uploads,      \* depot.upload calls issued in this run, in order
  faults,       \* failures injected in this run
  depot,        \* the depot's objects: path -> Buffer
  dav,          \* the WebDAV depot: server collections, memo, upload frames
  host,         \* the main script's map over the upstream NeoForge versions
  api,          \* the VersionsApi: its promise caches, requests and callers
  call,         \* the last call of a function without state, with its result
  twin          \* a pair of syncWithDepot runs that differ in fullResync only

vars == <<run, listings, tasks, files, thrown, finishPc, finishSnap,
          sync, uploads, faults, depot, dav, host, api, call, twin>>

\* the state outside the ListingsBuilder, the sync engine and the depots
scriptVars == <<host, api, call, twin>>

\* the state of the ListingsBuilder and of the destination folder
builderVars == <<listings, tasks, files, thrown, finishPc, finishSnap>>

\* ------------------------------------------------------------ pure helpers
\* position of a name in the collation order
Rank(name) == CHOOSE k \in 1..Len(NameOrder) : NameOrder[k] = name

\* String.prototype.localeCompare on listing names: <0, 0, >0
localeCompare(a, b) == Rank(a) - Rank(b)

\* Array.prototype.sort with the comparator (a, b) => a.name.localeCompare(b.name):
\* a stable insertion sort.
RECURSIVE InsertSorted(_, _)
InsertSorted(d, s) ==
  IF s = <<>> THEN <<d>>
  ELSE IF localeCompare(d.name, Head(s).name) < 0 THEN <<d>> \o s
  ELSE <<Head(s)>> \o InsertSorted(d, Tail(s))

RECURSIVE SortByName(_)
SortByName(s) ==
  IF s = <<>> THEN <<>>
  ELSE InsertSorted(s[Len(s)], SortByName(SubSeq(s, 1, Len(s) - 1)))

\* ---------------------------------------------- payloads, JSON and buffers
\* A JSON-serialisable value handed to writeListing is either a host object
\* (identified by a number) or, in finish(), the array of descriptors.
ObjectContent(p) == [type |-> "object", obj |-> p, arr |-> <<>>]
ArrayContent(descs) == [type |-> "array", obj |-> 0, arr |-> descs]

\* JSON.stringify of a FileDescriptor: its members in property order
FileDescriptorToJSON(f) == <<f.url, f.size, f.sha256>>

\* JSON.stringify of a ListingDescriptor: name, last_modified, the spread
\* FileDescriptor, then brotli and gzip.
DescriptorToJSON(d) ==
  <<d.name, d.last_modified, d.url, d.size, d.sha256,
    FileDescriptorToJSON(d.brotli), FileDescriptorToJSON(d.gzip)>>

\* JSON.parse of one serialised ListingDescriptor
DescriptorFromJSON(r) ==
  [name |-> r[1], last_modified |-> r[2], url |-> r[3], size |-> r[4],
   sha256 |-> r[5],
   brotli |-> [url |-> r[6][1], size |-> r[6][2], sha256 |-> r[6][3]],
   gzip |-> [url |-> r[7][1], size |-> r[7][2], sha256 |-> r[7][3]]]

\* JSON.stringify(content): the text, as the object's number or the rows
JSONStringify(content) ==
  [type |-> content.type, obj |-> content.obj,
   rows |-> [k \in 1..Len(content.arr) |-> DescriptorToJSON(content.arr[k])]]

\* JSON.parse of an array document: the descriptors, in document order
JSONParse(text) == [k \in 1..Len(text.rows) |-> DescriptorFromJSON(text.rows[k])]

\* number of characters of a JSON text; objects 1 and 2 have equal length
JSONLength(text) ==
  IF text.type = "object" THEN 2 + (text.obj + 1) \div 2
  ELSE 2 + 7 * Len(text.rows)

\* Buffer.from(json, "utf8")
BufferFrom(text) == [codec |-> "identity", text |-> text]

\* buffer.toString("utf-8")
BufferToString(buffer) == buffer.text

\* zlib.brotliCompress / zopfli.gzip: lossless, tagged by their codec
brotliCompress(buffer) == [codec |-> "br", text |-> buffer.text]
gzipCompress(buffer) == [codec |-> "gz", text |-> buffer.text]

\* compress(buffer): Map { brotli -> ..., gzip -> ... }
compress(buffer) == [brotli |-> brotliCompress(buffer), gzip |-> gzipCompress(buffer)]

\* buffer.length
BufferLength(buffer) ==
  JSONLength(buffer.text)
    + (CASE buffer.codec = "identity" -> 0
         [] buffer.codec = "br" -> 1
         [] buffer.codec = "gz" -> 2)

\* crypto.createHash("sha256").update(buffer).digest("hex"): collision free
sha256(buffer) == [hex |-> buffer]

buildUrl(filename) == filename

buildFileDescriptor(filename, buffer) ==
  [url |-> buildUrl(filename), size |-> BufferLength(buffer), sha256 |-> sha256(buffer)]

\* the value writeListingAsync returns for (name, content) in this run
BuildDescriptor(name, content, referenceDate) ==
  LET buffer == BufferFrom(JSONStringify(content))
      compressed == compress(buffer)
      plain == buildFileDescriptor(name \o ".json", buffer)
  IN [name |-> name, last_modified |-> referenceDate,
      url |-> plain.url, size |-> plain.size, sha256 |-> plain.sha256,
      brotli |-> buildFileDescriptor(name \o ".json.br", compressed.brotli),
      gzip |-> buildFileDescriptor(name \o ".json.gz", compressed.gzip)]

\* mutant: only the uncompressed artifact is uploaded
extensionsToUploadPlainOnly == <<"json">>

\* extensionsToUpload: "json" and one per compression scheme
extensionsToUpload ==
  <<"json">> \o [k \in 1..Len(CompressionTypes) |->
                   "json." \o compressionExtensions[CompressionTypes[k]]]

\* ------------------------------------------------------ state and Init
FinishTask == "#finish"     \* the writeListingAsync call made by finish()
TaskIds == Names \cup {FinishTask}

IdleSync ==
  [pc |-> "idle", fullResync |-> FALSE, existing |-> <<>>, snap |-> 0,
   listings |-> <<>>, i |-> 1, e |-> 1, content |-> <<>>, error |-> ""]

IdleDav == [collections |-> {}, objects |-> {}, createdDirectories |-> {},
            frames |-> <<>>, reads |-> <<>>, faults |-> 0, serial |-> TRUE]

\* the map over neoforgeVersions has not run
IdleHost == [pc |-> "idle", versions |-> {}, logged |-> {}, fetching |-> {}]

\* the two kinds of version details, each with its cache and its endpoint
Kinds == {"minecraft", "neoforge"}

\* new VersionsApi(): both caches are empty objects; no promise was made and
\* no caller has called
IdleApi == [cache |-> [kind \in Kinds |-> <<>>], promises |-> <<>>, callers |-> <<>>]

NoCall == [fn |-> "", arg |-> <<>>, result |-> <<>>]

\* no pair of runs has been started: the depot is being seeded
IdleTwin ==
  [phase |-> "seed", flag |-> FALSE, depot0 |-> <<>>, uploads |-> <<>>,
   depot |-> <<>>, end |-> "", error |-> ""]

Init ==
  /\ run = 1
  /\ listings = <<>>
  /\ tasks = <<>>
  /\ files = <<>>
  /\ thrown = FALSE
  /\ finishPc = "idle"
  /\ finishSnap = 0
  /\ sync = IdleSync
  /\ uploads = <<>>
  /\ faults = 0
  /\ depot = <<>>
  /\ dav = IdleDav
  /\ host = IdleHost
  /\ api = IdleApi
  /\ call = NoCall
  /\ twin = IdleTwin

\* The process of this run is over: process.exit(1) was called, an uncaught
\* exception or the rejection of the awaited syncWithDepot ended it, or
\* syncWithDepot, the last statement of the script, returned.
Exited == thrown \/ sync.pc \in {"exited", "error", "done"}

\* `name in this.listings`
Registered(name) == \E k \in 1..Len(listings) : listings[k].name = name

\* index of a registered name in the registry
Slot(name) == CHOOSE k \in 1..Len(listings) : listings[k].name = name

\* the promises Object.values(this.listings) returns, settled how
AllFulfilled(n) == \A k \in 1..n : listings[k].state = "fulfilled"
SomeRejected(n) == \E k \in 1..n : listings[k].state = "rejected"
Values(n) == [k \in 1..n |-> listings[k].value[1]]

\* fs.writeFile(path, buffer) on the destination folder
WriteFile(fs, path, buffer) ==
  [q \in DOMAIN fs \cup {path} |-> IF q = path THEN buffer ELSE fs[q]]

\* remove a finished writeListingAsync invocation
DropTask(t) == [q \in DOMAIN tasks \ {t} |-> tasks[q]]

\* ---------------------------------------------------- ListingsBuilder
\* mutant: writeListing without the check of the name
writeListingUnchecked(name, p) ==
  /\ ~Exited
  /\ Len(listings) < MaxListings
  /\ thrown' = FALSE
  /\ listings' = Append(listings,
        [name |-> name, state |-> "pending", value |-> <<>>])
  /\ tasks' = [q \in DOMAIN tasks \cup {name} |->
        IF q = name
        THEN [name |-> name, content |-> ObjectContent(p), pc |-> "content"]
        ELSE tasks[q]]
  /\ UNCHANGED <<scriptVars, run, files, finishPc, finishSnap, sync, uploads, faults, depot, dav>>

\* writeListing(name, content): throws on a registered name, otherwise
\* stores the promise of writeListingAsync(name, content), which runs up to
\* its first await.
writeListing(name, p) ==
  /\ ~Exited
  /\ IF Registered(name)
     THEN /\ thrown' = TRUE
          /\ UNCHANGED <<listings, tasks>>
     ELSE /\ Len(listings) < MaxListings
          /\ thrown' = FALSE
          /\ listings' = Append(listings,
                [name |-> name, state |-> "pending", value |-> <<>>])
          /\ tasks' = [q \in DOMAIN tasks \cup {name} |->
                IF q = name
                THEN [name |-> name, content |-> ObjectContent(p), pc |-> "content"]
                ELSE tasks[q]]
  /\ UNCHANGED <<scriptVars, run, files, finishPc, finishSnap, sync, uploads, faults, depot, dav>>

\* writeListingAsync, `content = await content`
awaitContent(t) ==
  /\ ~Exited
  /\ t \in DOMAIN tasks /\ tasks[t].pc = "content"
  /\ tasks' = [tasks EXCEPT ![t].pc = "json"]
  /\ UNCHANGED <<scriptVars, run, listings, files, thrown, finishPc, finishSnap, sync,
                 uploads, faults, depot, dav>>

\* writeListingAsync, stringify, mkdir and `fs.writeFile(jsonPath, buffer)`
writeJson(t) ==
  /\ ~Exited
  /\ t \in DOMAIN tasks /\ tasks[t].pc = "json"
  /\ files' = WriteFile(files, tasks[t].name \o ".json",
                        BufferFrom(JSONStringify(tasks[t].content)))
  /\ tasks' = [tasks EXCEPT ![t].pc = "br"]
  /\ UNCHANGED <<scriptVars, run, listings, thrown, finishPc, finishSnap, sync,
                 uploads, faults, depot, dav>>

\* writeListingAsync, compress and the first writeFile of the loop (brotli)
writeBrotli(t) ==
  /\ ~Exited
  /\ t \in DOMAIN tasks /\ tasks[t].pc = "br"
  /\ files' = WriteFile(files,
        tasks[t].name \o ".json." \o compressionExtensions.brotli,
        compress(BufferFrom(JSONStringify(tasks[t].content))).brotli)
  /\ tasks' = [tasks EXCEPT ![t].pc = "gz"]
  /\ UNCHANGED <<scriptVars, run, listings, thrown, finishPc, finishSnap, sync,
                 uploads, faults, depot, dav>>

\* the promise of invocation t settles: a registered listing's entry in the
\* registry, or the await of finish()
Settle(t, state, value) ==
  IF t = FinishTask
  THEN /\ finishPc' = (IF state = "fulfilled" THEN "done" ELSE "rejected")
       /\ UNCHANGED listings
  ELSE /\ listings' = [listings EXCEPT ![Slot(t)].state = state,
                                       ![Slot(t)].value = value]
       /\ UNCHANGED finishPc

\* writeListingAsync, the second writeFile of the loop (gzip) and the return
writeGzip(t) ==
  /\ ~Exited
  /\ t \in DOMAIN tasks /\ tasks[t].pc = "gz"
  /\ files' = WriteFile(files,
        tasks[t].name \o ".json." \o compressionExtensions.gzip,
        compress(BufferFrom(JSONStringify(tasks[t].content))).gzip)
  /\ Settle(t, "fulfilled", <<BuildDescriptor(tasks[t].name, tasks[t].content, run)>>)
  /\ tasks' = DropTask(t)
  /\ UNCHANGED <<scriptVars, run, thrown, finishSnap, sync, uploads, faults, depot, dav>>

\* writeListingAsync rejects: the payload's promise, JSON.stringify or a
\* filesystem call failed
taskFails(t) ==
  /\ ~Exited
  /\ t \in DOMAIN tasks
  /\ faults < MaxFaults
  /\ faults' = faults + 1
  /\ Settle(t, "rejected", <<>>)
  /\ tasks' = DropTask(t)
  /\ UNCHANGED <<scriptVars, run, files, thrown, finishSnap, sync, uploads, depot, dav>>

\* finish(): first `await Promise.all(Object.values(this.listings))`
finish ==
  /\ ~Exited
  /\ finishPc = "idle"
  /\ finishPc' = "join1"
  /\ finishSnap' = Len(listings)
  /\ UNCHANGED <<scriptVars, run, listings, tasks, files, thrown, sync, uploads, faults,
                 depot, dav>>

\* finish(): the first Promise.all fulfilled; the second one is started
finishJoined1 ==
  /\ ~Exited
  /\ finishPc = "join1"
  /\ AllFulfilled(finishSnap)
  /\ finishPc' = "join2"
  /\ finishSnap' = Len(listings)
  /\ UNCHANGED <<scriptVars, run, listings, tasks, files, thrown, sync, uploads, faults,
                 depot, dav>>

\* finish(): `await this.writeListingAsync("index", files)`: the private
\* method is called directly, this.listings is not touched
finishJoined2 ==
  /\ ~Exited
  /\ finishPc = "join2"
  /\ AllFulfilled(finishSnap)
  /\ finishPc' = "index"
  /\ tasks' = [q \in DOMAIN tasks \cup {FinishTask} |->
        IF q = FinishTask
        THEN [name |-> "index", content |-> ArrayContent(Values(finishSnap)),
              pc |-> "content"]
        ELSE tasks[q]]
  /\ UNCHANGED <<scriptVars, run, listings, files, thrown, finishSnap, sync, uploads,
                 faults, depot, dav>>

\* finish(): one of the awaited promises rejected
finishRejected ==
  /\ ~Exited
  /\ finishPc \in {"join1", "join2"}
  /\ SomeRejected(finishSnap)
  /\ finishPc' = "rejected"
  /\ UNCHANGED <<scriptVars, run, listings, tasks, files, thrown, finishSnap, sync, uploads,
                 faults, depot, dav>>

\* ------------------------------------------------------ syncWithDepot
\* Object.fromEntries(depotIndex.map((e) => [e.name, e])): a later entry of
\* the same name replaces an earlier one
existingListings(depotIndex) ==
  [n \in {depotIndex[k].name : k \in 1..Len(depotIndex)} |->
     depotIndex[CHOOSE k \in 1..Len(depotIndex) :
        /\ depotIndex[k].name = n
        /\ \A j \in (k + 1)..Len(depotIndex) : depotIndex[j].name # n]]

\* the condition of the skip branch
SkipUpload(listing, depotIndex) ==
  LET existing == existingListings(depotIndex)
  IN /\ listing.name \in DOMAIN existing
     /\ existing[listing.name].sha256 = listing.sha256
     /\ existing[listing.name].size = listing.size

\* The skip branch evaluates the arguments of console.debug, among them the
\* identifier `name`, which no scope of the module binds: evaluating it
\* raises a ReferenceError, which rejects syncWithDepot.
SkipBranch(f) == [f EXCEPT !.pc = "error", !.error = "ReferenceError"]

\* The loop of syncWithDepot from the head of iteration f.i up to its next
\* await: the readFile of the first artifact of a changed listing, the
\* upload of the index once the listings are exhausted, or the skip branch.
LoopHead(f) ==
  IF f.i > Len(f.listings) THEN [f EXCEPT !.pc = "putIndex"]
  ELSE IF SkipUpload(f.listings[f.i], f.existing) THEN SkipBranch(f)
  ELSE [f EXCEPT !.pc = "read", !.e = 1]

\* mutant: the index is serialised in registration order
NewDepotIndexUnsorted(ls) == BufferFrom(JSONStringify(ArrayContent(ls)))

\* const newDepotIndex = listings.slice(); newDepotIndex.sort(...);
\* Buffer.from(JSON.stringify(newDepotIndex), "utf-8")
NewDepotIndex(ls) == BufferFrom(JSONStringify(ArrayContent(SortByName(ls))))

\* depot.upload(path, content) called: the call is recorded when it is issued
Issue(path) == uploads' = Append(uploads, path)

\* syncWithDepot(depot, fullResync) up to `await depot.getJSON(...)`
syncWithDepot(fullResync) ==
  /\ ~Exited
  /\ sync.pc = "idle"
  /\ sync' = [sync EXCEPT !.pc = "getJSON", !.fullResync = fullResync]
  /\ UNCHANGED <<scriptVars, run, builderVars, uploads, faults, depot, dav>>

\* mutant: a missing index is taken for an empty one without fullResync
getJSONReturnsUnguarded ==
  /\ ~thrown
  /\ sync.pc = "getJSON"
  /\ sync' = [sync EXCEPT !.pc = "join", !.snap = Len(listings),
        !.existing = IF DEPOT_INDEX_PATH \in DOMAIN depot
                     THEN JSONParse(BufferToString(depot[DEPOT_INDEX_PATH]))
                     ELSE <<>>]
  /\ UNCHANGED <<scriptVars, run, builderVars, uploads, faults, depot, dav>>

\* the baseline dropped whenever fullResync is set, index or no index
getJSONReturnsForced ==
  /\ ~thrown
  /\ sync.pc = "getJSON"
  /\ IF DEPOT_INDEX_PATH \in DOMAIN depot /\ ~sync.fullResync
     THEN sync' = [sync EXCEPT !.pc = "join", !.snap = Len(listings),
                     !.existing = JSONParse(BufferToString(depot[DEPOT_INDEX_PATH]))]
     ELSE IF ~sync.fullResync
     THEN sync' = [sync EXCEPT !.pc = "exited"]
     ELSE sync' = [sync EXCEPT !.pc = "join", !.snap = Len(listings),
                     !.existing = <<>>]
  /\ UNCHANGED <<scriptVars, run, builderVars, uploads, faults, depot, dav>>

\* getJSON returned: undefined for an absent object, else the parsed document;
\* then the guard, existingListings and the Promise.all over the registry
getJSONReturns ==
  /\ ~thrown
  /\ sync.pc = "getJSON"
  /\ IF DEPOT_INDEX_PATH \in DOMAIN depot
     THEN sync' = [sync EXCEPT !.pc = "join", !.snap = Len(listings),
                     !.existing = JSONParse(BufferToString(depot[DEPOT_INDEX_PATH]))]
     ELSE IF ~sync.fullResync
     THEN sync' = [sync EXCEPT !.pc = "exited"]
     ELSE sync' = [sync EXCEPT !.pc = "join", !.snap = Len(listings),
                     !.existing = <<>>]
  /\ UNCHANGED <<scriptVars, run, builderVars, uploads, faults, depot, dav>>

\* the loop started without the await, over the listings fulfilled so far
syncJoinedNoBarrier ==
  /\ ~thrown
  /\ sync.pc = "join"
  /\ LET IsFulfilled(l) == l.state = "fulfilled"
         settled == SelectSeq(SubSeq(listings, 1, sync.snap), IsFulfilled)
     IN sync' = LoopHead([sync EXCEPT
          !.listings = [k \in 1..Len(settled) |-> settled[k].value[1]], !.i = 1])
  /\ IF sync'.pc = "putIndex" THEN Issue(DEPOT_INDEX_PATH) ELSE UNCHANGED uploads
  /\ UNCHANGED <<scriptVars, run, builderVars, faults, depot, dav>>

\* `await Promise.all(Object.values(this.listings))` fulfilled; the loop runs
\* up to its first await
syncJoined ==
  /\ ~thrown
  /\ sync.pc = "join"
  /\ AllFulfilled(sync.snap)
  /\ sync' = LoopHead([sync EXCEPT !.listings = Values(sync.snap), !.i = 1])
  /\ IF sync'.pc = "putIndex" THEN Issue(DEPOT_INDEX_PATH) ELSE UNCHANGED uploads
  /\ UNCHANGED <<scriptVars, run, builderVars, faults, depot, dav>>

\* one of the registered compilations rejected: Promise.all rejects
syncJoinRejected ==
  /\ ~thrown
  /\ sync.pc = "join"
  /\ SomeRejected(sync.snap)
  /\ sync' = [sync EXCEPT !.pc = "error", !.error = "listing"]
  /\ UNCHANGED <<scriptVars, run, builderVars, uploads, faults, depot, dav>>

\* the file name built without the extension of the inner loop
FilenamePlainOnly(f) == f.listings[f.i].name \o ".json"

\* the file of the artifact (i, e) of the loop
Filename(f) == f.listings[f.i].name \o "." \o extensionsToUpload[f.e]

\* fs.readFile(...) settled: ENOENT rejects, otherwise .then() calls depot.upload
readFile ==
  /\ ~thrown
  /\ sync.pc = "read"
  /\ IF Filename(sync) \in DOMAIN files
     THEN /\ sync' = [sync EXCEPT !.pc = "upload",
                                  !.content = <<files[Filename(sync)]>>]
          /\ Issue(Filename(sync))
     ELSE /\ sync' = [sync EXCEPT !.pc = "error", !.error = "ENOENT"]
          /\ UNCHANGED uploads
  /\ UNCHANGED <<scriptVars, run, builderVars, faults, depot, dav>>

\* depot.upload of an artifact resolved; the loop continues up to its next await
uploaded ==
  /\ ~thrown
  /\ sync.pc = "upload"
  /\ depot' = WriteFile(depot, Filename(sync), sync.content[1])
  /\ sync' = IF sync.e < Len(extensionsToUpload)
             THEN [sync EXCEPT !.pc = "read", !.e = sync.e + 1, !.content = <<>>]
             ELSE LoopHead([sync EXCEPT !.i = sync.i + 1, !.e = 1, !.content = <<>>])
  /\ IF sync'.pc = "putIndex" THEN Issue(DEPOT_INDEX_PATH) ELSE UNCHANGED uploads
  /\ UNCHANGED <<scriptVars, run, builderVars, faults, dav>>

\* mutant: the baseline document is published again instead of the new one
indexUploadedStale ==
  /\ ~thrown
  /\ sync.pc = "putIndex"
  /\ depot' = WriteFile(depot, DEPOT_INDEX_PATH,
                        BufferFrom(JSONStringify(ArrayContent(sync.existing))))
  /\ sync' = [sync EXCEPT !.pc = "done"]
  /\ UNCHANGED <<scriptVars, run, builderVars, uploads, faults, dav>>

\* depot.upload(DEPOT_INDEX_PATH, ...) resolved: syncWithDepot returns
indexUploaded ==
  /\ ~thrown
  /\ sync.pc = "putIndex"
  /\ depot' = WriteFile(depot, DEPOT_INDEX_PATH, NewDepotIndex(sync.listings))
  /\ sync' = [sync EXCEPT !.pc = "done"]
  /\ UNCHANGED <<scriptVars, run, builderVars, uploads, faults, dav>>

\* mutant: a failed artifact upload is swallowed and the loop goes on
syncFailsSwallowed ==
  /\ ~thrown
  /\ sync.pc \in {"getJSON", "read", "upload", "putIndex"}
  /\ faults < MaxFaults
  /\ faults' = faults + 1
  /\ IF sync.pc = "upload"
     THEN sync' = IF sync.e < Len(extensionsToUpload)
                  THEN [sync EXCEPT !.pc = "read", !.e = sync.e + 1, !.content = <<>>]
                  ELSE LoopHead([sync EXCEPT !.i = sync.i + 1, !.e = 1, !.content = <<>>])
     ELSE sync' = [sync EXCEPT !.pc = "error", !.error = sync.pc]
  /\ IF sync'.pc = "putIndex" THEN Issue(DEPOT_INDEX_PATH) ELSE UNCHANGED uploads
  /\ UNCHANGED <<scriptVars, run, builderVars, depot, dav>>

\* an awaited depot or filesystem call of syncWithDepot rejects; no catch, so
\* syncWithDepot rejects with it.  A failed upload may have reached the depot.
syncFails ==
  /\ ~thrown
  /\ sync.pc \in {"getJSON", "read", "upload", "putIndex"}
  /\ faults < MaxFaults
  /\ faults' = faults + 1
  /\ sync' = [sync EXCEPT !.pc = "error", !.error = sync.pc]
  /\ \/ UNCHANGED depot
     \/ /\ sync.pc = "upload"
        /\ depot' = WriteFile(depot, Filename(sync), sync.content[1])
     \/ /\ sync.pc = "putIndex"
        /\ depot' = WriteFile(depot, DEPOT_INDEX_PATH, NewDepotIndex(sync.listings))
  /\ UNCHANGED <<scriptVars, run, builderVars, uploads, dav>>

\* the process ended; the next run starts with an emptied destination folder
\* and a new ListingsBuilder, against the same depot
newRun ==
  /\ Exited \/ finishPc = "rejected"
  /\ run < MaxRuns
  /\ run' = run + 1
  /\ listings' = <<>>
  /\ tasks' = <<>>
  /\ files' = <<>>
  /\ thrown' = FALSE
  /\ finishPc' = "idle"
  /\ finishSnap' = 0
  /\ sync' = IdleSync
  /\ uploads' = <<>>
  /\ faults' = 0
  /\ host' = IdleHost
  /\ api' = IdleApi
  /\ UNCHANGED <<depot, dav, call, twin>>

\* The builder and the sync engine as a library, during one run against an
\* empty depot: the host may call writeListing, finish and syncWithDepot in
\* any order, while compilations are running.
Next ==
  \/ \E n \in Names : writeListing(n, 1)
  \/ \E t \in TaskIds : awaitContent(t)
  \/ \E t \in TaskIds : writeJson(t)
  \/ \E t \in TaskIds : writeBrotli(t)
  \/ \E t \in TaskIds : writeGzip(t)
  \/ \E t \in TaskIds : taskFails(t)
  \/ finish
  \/ finishJoined1
  \/ finishJoined2
  \/ finishRejected
  \/ \E r \in BOOLEAN : syncWithDepot(r)
  \/ getJSONReturns
  \/ syncJoined
  \/ syncJoinRejected
  \/ readFile
  \/ uploaded
  \/ indexUploaded
  \/ syncFails

Spec == Init /\ [][Next]_vars

\* a host that has registered all its listings when it calls syncWithDepot,
\* as the main script has, but does not wait for them before the call
hostRegisters == sync.pc = "idle" /\ \E n \in Names : writeListing(n, 1)

NextBarrier ==
  \/ hostRegisters
  \/ \E t \in TaskIds : awaitContent(t)
  \/ \E t \in TaskIds : writeJson(t)
  \/ \E t \in TaskIds : writeBrotli(t)
  \/ \E t \in TaskIds : writeGzip(t)
  \/ \E t \in TaskIds : taskFails(t)
  \/ \E r \in BOOLEAN : syncWithDepot(r)
  \/ getJSONReturns
  \/ syncJoined
  \/ syncJoinRejected
  \/ readFile
  \/ uploaded
  \/ indexUploaded
  \/ syncFails

SpecBarrier == Init /\ [][NextBarrier]_vars

\* The names the main script registers by itself
HostNames == {"a", "b"}

\* the main script: it registers its listings, then awaits finish(), then
\* awaits syncWithDepot(depot, cliOptions.fullResync)
mainRegisters == finishPc = "idle" /\ \E n \in HostNames, p \in Payloads : writeListing(n, p)
mainSyncs == finishPc = "done" /\ \E r \in BOOLEAN : syncWithDepot(r)

\* Successive runs of the main script against one depot
NextRuns ==
  \/ mainRegisters
  \/ \E t \in TaskIds : awaitContent(t)
  \/ \E t \in TaskIds : writeJson(t)
  \/ \E t \in TaskIds : writeBrotli(t)
  \/ \E t \in TaskIds : writeGzip(t)
  \/ \E t \in TaskIds : taskFails(t)
  \/ finish
  \/ finishJoined1
  \/ finishJoined2
  \/ finishRejected
  \/ mainSyncs
  \/ getJSONReturns
  \/ syncJoined
  \/ readFile
  \/ uploaded
  \/ indexUploaded
  \/ syncFails
  \/ newRun

SpecRuns == Init /\ [][NextRuns]_vars

\* ------------------------------------------------------- depot downloads
\* What a download promise settles to: a returned value, <<>> for undefined
\* and <<buffer>> for a Buffer, or a thrown error with its message and the
\* code of its cause
Returned(value) == [kind |-> "return", value |-> value, message |-> "", code |-> ""]
Thrown(message, code) == [kind |-> "throw", value |-> <<>>, message |-> message, code |-> code]

\* what fetch settles to: a response with a status and a body, or a rejection
\* whose cause carries a system error code
Response(status, body) == [kind |-> "response", status |-> status, code |-> "", body |-> body]
Rejection(code) == [kind |-> "reject", status |-> 0, code |-> code, body |-> <<>>]

\* the try block with every non-success status taken for not-found
WebDAVTryLenient(response) ==
  IF response.kind = "reject" THEN Thrown("fetch failed", response.code)
  ELSE IF response.status \notin 200..299 THEN Returned(<<>>)
  ELSE Returned(<<response.body>>)

\* the try block of WebDAVDepotManager.download
WebDAVTry(response) ==
  IF response.kind = "reject" THEN Thrown("fetch failed", response.code)
  ELSE IF response.status = 404 THEN Returned(<<>>)
  ELSE IF response.status \notin 200..299 THEN Thrown("WebDAV GET failed", "")
  ELSE Returned(<<response.body>>)

\* WebDAVDepotManager.download: the try block, then the catch block, which
\* replaces an error caused by ENOTFOUND or ECONNREFUSED and rethrows others
WebDAVDownload(response) ==
  LET r == WebDAVTry(response)
  IN IF r.kind = "throw" /\ r.code \in {"ENOTFOUND", "ECONNREFUSED"}
     THEN Thrown("Cannot connect to WebDAV server", "")
     ELSE r

\* what fs.readFile settles to
ReadOk(body) == [kind |-> "ok", code |-> "", body |-> body]
ReadError(code) == [kind |-> "error", code |-> code, body |-> <<>>]

\* LocalDepotManager.download: ENOENT is undefined, other errors are rethrown
LocalDownload(read) ==
  IF read.kind = "ok" THEN Returned(<<read.body>>)
  ELSE IF read.code = "ENOENT" THEN Returned(<<>>)
  ELSE Thrown("readFile", read.code)

\* DepotManager.getJSON on the settled download
getJSON(content) ==
  IF content.kind = "throw" THEN content
  ELSE IF content.value = <<>> THEN Returned(<<>>)
  ELSE Returned(<<JSONParse(BufferToString(content.value[1]))>>)

\* Inputs: index documents a depot may hold, statuses and error codes
IndexBuffers ==
  {BufferFrom(JSONStringify(ArrayContent(descs))) :
     descs \in {<<>>, <<BuildDescriptor("a", ObjectContent(1), 1)>>}}
Statuses == {200, 204, 301, 304, 400, 401, 403, 404, 405, 409, 410, 500, 502, 503}
FetchCodes == {"ENOTFOUND", "ECONNREFUSED", "ECONNRESET", "ETIMEDOUT", ""}
ReadCodes == {"ENOENT", "EACCES", "EISDIR", "ENOTDIR", "EIO"}
Responses ==
  {Response(st, b) : st \in Statuses, b \in IndexBuffers}
    \cup {Rejection(c) : c \in FetchCodes}
Reads == {ReadOk(b) : b \in IndexBuffers} \cup {ReadError(c) : c \in ReadCodes}

\* ------------------------------------------------ WebDAVDepotManager
\* A relative path is its sequence of "/"-separated segments; a string that
\* ends in "/" (a currentPath of ensureDirectoryExists) is told apart from
\* one that does not (a dirPath) by the flag `slash`.
DavPaths == {<<"d", "x.json">>, <<"d", "y.json">>, <<"d", "e", "z.json">>,
             <<DEPOT_INDEX_PATH>>}

\* relativePath.substring(0, relativePath.lastIndexOf("/")): "" without a "/"
Dirname(path) == SubSeq(path, 1, Len(path) - 1)

\* dirPath.split("/").filter((p) => p.length > 0)
Parts(dirPath) == dirPath

\* currentPath after the k-th `currentPath += part + "/"`
CurrentPath(parts, k) == [segs |-> SubSeq(parts, 1, k), slash |-> TRUE]

\* The first check of ensureDirectoryExists looks dirPath up as it is, without
\* the trailing "/" under which the loop stores the prefixes.
MemoHasDirPath(memo, dirPath) == [segs |-> dirPath, slash |-> FALSE] \in memo

\* ensureDirectoryExists from the k-th part on, up to its next await: the
\* index of the first prefix that is not in createdDirectories, or
\* Len(parts) + 1 when the loop ends without a request
\* the loop with the `createdDirectories.has(currentPath)` test left out
NextMkcolNoMemo(memo, parts, k) == k

RECURSIVE NextMkcol(_, _, _)
NextMkcol(memo, parts, k) ==
  IF k > Len(parts) THEN k
  ELSE IF CurrentPath(parts, k) \in memo THEN NextMkcol(memo, parts, k + 1)
  ELSE k

\* upload without its `await this.ensureDirectoryExists(dirname)`
UploadFrameNoEnsure(memo, path) ==
  [path |-> path, k |-> Len(Parts(Dirname(path))) + 1, status |-> 0,
   seen |-> {}, error |-> "", cause |-> "", known |-> memo, sent |-> <<>>,
   pc |-> "put"]

\* upload(relativePath, content) up to its first await: the MKCOL of the
\* first missing prefix, or the PUT
UploadFrame(memo, path) ==
  LET dirname == Dirname(path)
      k == IF dirname = <<>> \/ MemoHasDirPath(memo, dirname)
           THEN Len(Parts(dirname)) + 1
           ELSE NextMkcol(memo, Parts(dirname), 1)
  IN [path |-> path, k |-> k, status |-> 0, seen |-> {}, error |-> "",
      cause |-> "", known |-> memo,
      sent |-> IF k > Len(Parts(dirname)) THEN <<>>
               ELSE <<CurrentPath(Parts(dirname), k)>>,
      pc |-> IF k > Len(Parts(dirname)) THEN "put" ELSE "mkcol"]

\* a caller starts upload(path, content) on the depot
davUpload(u, path) ==
  /\ u \notin DOMAIN dav.frames
  /\ Len(dav.frames) + Len(dav.reads) < MaxUploads
  /\ \A v \in 1..(u - 1) : v \in DOMAIN dav.frames
  /\ dav' = [dav EXCEPT
       !.serial = @ /\ \A v \in DOMAIN dav.frames : dav.frames[v].pc \in {"done", "failed"},
       !.frames =
         [v \in DOMAIN dav.frames \cup {u} |->
            IF v = u THEN UploadFrame(dav.createdDirectories, path)
            ELSE dav.frames[v]]]
  /\ UNCHANGED <<scriptVars, run, builderVars, sync, uploads, faults, depot>>

\* the server's answer to MKCOL of a collection: 405 when it exists, 409
\* when its parent does not, otherwise it is created, 201
MkcolStatus(collections, segs) ==
  IF segs \in collections THEN 405
  ELSE IF Len(segs) > 1 /\ SubSeq(segs, 1, Len(segs) - 1) \notin collections THEN 409
  ELSE 201

\* the server handles the MKCOL that upload u has in flight
serverMkcol(u) ==
  /\ u \in DOMAIN dav.frames /\ dav.frames[u].pc = "mkcol"
  /\ LET f == dav.frames[u]
         segs == CurrentPath(Parts(Dirname(f.path)), f.k).segs
         status == MkcolStatus(dav.collections, segs)
     IN dav' = [dav EXCEPT
          !.collections = IF status = 201 THEN @ \cup {segs} ELSE @,
          !.frames[u].pc = "mkcolResponse",
          !.frames[u].status = status]
  /\ UNCHANGED <<scriptVars, run, builderVars, sync, uploads, faults, depot>>

\* mutant: only 201 counts as success
MkcolCreatedOnly(status) == status = 201

\* 201 = created, 405 = already exists, both are fine
MkcolSucceeded(status) == status = 201 \/ status = 405

\* createdDirectories with the prefix added whatever the MKCOL answered
MemoizeAlways(memo, status, prefix) == memo \cup {prefix}

\* createdDirectories after the response to the MKCOL of prefix: the
\* prefix is added on 201 and 405 only
Memoize(memo, status, prefix) ==
  IF MkcolSucceeded(status) THEN memo \cup {prefix} ELSE memo

\* ensureDirectoryExists receives the response of its MKCOL: the prefix is
\* memoized and the loop goes on, up to the next MKCOL or, back in upload,
\* the PUT; any other status throws
mkcolResponse(u) ==
  /\ u \in DOMAIN dav.frames /\ dav.frames[u].pc = "mkcolResponse"
  /\ LET f == dav.frames[u]
         parts == Parts(Dirname(f.path))
     IN IF MkcolSucceeded(f.status)
        THEN LET memo == Memoize(dav.createdDirectories, f.status,
                                 CurrentPath(parts, f.k))
                 k == NextMkcol(memo, parts, f.k + 1)
             IN dav' = [dav EXCEPT
                  !.createdDirectories = memo,
                  !.frames[u].k = k,
                  !.frames[u].seen = @ \cup {f.status},
                  !.frames[u].sent = IF k > Len(parts) THEN @
                                     ELSE Append(@, CurrentPath(parts, k)),
                  !.frames[u].pc = IF k > Len(parts) THEN "put" ELSE "mkcol"]
        ELSE dav' = [dav EXCEPT
               !.createdDirectories = Memoize(@, f.status, CurrentPath(parts, f.k)),
               !.frames[u].pc = "failed",
               !.frames[u].error = "WebDAV MKCOL failed"]
  /\ UNCHANGED <<scriptVars, run, builderVars, sync, uploads, faults, depot>>

\* the server's answer to the PUT of an object: 409 without its collection,
\* 204 when it replaces an object, otherwise 201
PutStatus(collections, objects, path) ==
  IF Dirname(path) # <<>> /\ Dirname(path) \notin collections THEN 409
  ELSE IF path \in objects THEN 204
  ELSE 201

\* the server handles the PUT that upload u has in flight
serverPut(u) ==
  /\ u \in DOMAIN dav.frames /\ dav.frames[u].pc = "put"
  /\ LET f == dav.frames[u]
         status == PutStatus(dav.collections, dav.objects, f.path)
     IN dav' = [dav EXCEPT
          !.objects = IF status \in {201, 204} THEN @ \cup {f.path} ELSE @,
          !.frames[u].pc = "putResponse",
          !.frames[u].status = status]
  /\ UNCHANGED <<scriptVars, run, builderVars, sync, uploads, faults, depot>>

\* upload receives the response of its PUT: `if (!response.ok) throw`
putResponse(u) ==
  /\ u \in DOMAIN dav.frames /\ dav.frames[u].pc = "putResponse"
  /\ dav' = IF dav.frames[u].status \in 200..299
            THEN [dav EXCEPT !.frames[u].pc = "done"]
            ELSE [dav EXCEPT !.frames[u].pc = "failed",
                             !.frames[u].error = "WebDAV PUT failed"]
  /\ UNCHANGED <<scriptVars, run, builderVars, sync, uploads, faults, depot>>

\* the server fails a request in flight with 500, leaving its state as it is
serverError(u) ==
  /\ u \in DOMAIN dav.frames /\ dav.frames[u].pc \in {"mkcol", "put"}
  /\ dav.faults < MaxFaults
  /\ dav' = [dav EXCEPT
       !.faults = @ + 1,
       !.frames[u].status = 500,
       !.frames[u].pc = IF dav.frames[u].pc = "mkcol" THEN "mkcolResponse"
                        ELSE "putResponse"]
  /\ UNCHANGED <<scriptVars, run, builderVars, sync, uploads, faults, depot>>

\* the fetch of a MKCOL or PUT rejects before the request reaches the server
\* (ENOTFOUND, ECONNREFUSED); neither upload nor ensureDirectoryExists has a
\* catch, so upload rejects with the TypeError of fetch as it is
fetchRejects(u, code) ==
  /\ u \in DOMAIN dav.frames /\ dav.frames[u].pc \in {"mkcol", "put"}
  /\ dav.faults < MaxFaults
  /\ dav' = [dav EXCEPT
       !.faults = @ + 1,
       !.frames[u].pc = "failed",
       !.frames[u].cause = code,
       !.frames[u].error = "fetch failed"]
  /\ UNCHANGED <<scriptVars, run, builderVars, sync, uploads, faults, depot>>

\* a caller starts download(path) on the depot: the GET is in flight
davDownload(path) ==
  /\ Len(dav.frames) + Len(dav.reads) < MaxUploads
  /\ dav' = [dav EXCEPT !.reads =
       Append(@, [path |-> path, pc |-> "get", status |-> 0, cause |-> "",
                  result |-> Returned(<<>>)])]
  /\ UNCHANGED <<scriptVars, run, builderVars, sync, uploads, faults, depot>>

\* the server's answer to the GET of an object
GetStatus(objects, path) == IF path \in objects THEN 200 ELSE 404

\* the server handles the GET that download d has in flight
serverGet(d) ==
  /\ d \in DOMAIN dav.reads /\ dav.reads[d].pc = "get"
  /\ dav' = [dav EXCEPT
       !.reads[d].pc = "getResponse",
       !.reads[d].status = GetStatus(dav.objects, dav.reads[d].path)]
  /\ UNCHANGED <<scriptVars, run, builderVars, sync, uploads, faults, depot>>

\* the server fails the GET in flight with 500
serverGetError(d) ==
  /\ d \in DOMAIN dav.reads /\ dav.reads[d].pc = "get"
  /\ dav.faults < MaxFaults
  /\ dav' = [dav EXCEPT
       !.faults = @ + 1,
       !.reads[d].pc = "getResponse",
       !.reads[d].status = 500]
  /\ UNCHANGED <<scriptVars, run, builderVars, sync, uploads, faults, depot>>

\* download receives the response of its GET and settles; the body of an
\* object stands for the object's path
getResponse(d) ==
  /\ d \in DOMAIN dav.reads /\ dav.reads[d].pc = "getResponse"
  /\ dav' = [dav EXCEPT
       !.reads[d].pc = "settled",
       !.reads[d].result =
         WebDAVDownload(Response(dav.reads[d].status, dav.reads[d].path))]
  /\ UNCHANGED <<scriptVars, run, builderVars, sync, uploads, faults, depot>>

\* the fetch of the GET rejects before the request reaches the server; the
\* rejection is thrown inside the try block of download
fetchGetRejects(d, code) ==
  /\ d \in DOMAIN dav.reads /\ dav.reads[d].pc = "get"
  /\ dav.faults < MaxFaults
  /\ dav' = [dav EXCEPT
       !.faults = @ + 1,
       !.reads[d].pc = "settled",
       !.reads[d].cause = code,
       !.reads[d].result = WebDAVDownload(Rejection(code))]
  /\ UNCHANGED <<scriptVars, run, builderVars, sync, uploads, faults, depot>>

\* the causes of a fetch that could not reach the server
TransportCodes == {"ENOTFOUND", "ECONNREFUSED"}

\* Calls on one WebDAVDepotManager, concurrent or one after another
NextDav ==
  \/ \E u \in 1..MaxUploads, path \in DavPaths : davUpload(u, path)
  \/ \E u \in 1..MaxUploads : serverMkcol(u)
  \/ \E u \in 1..MaxUploads : mkcolResponse(u)
  \/ \E u \in 1..MaxUploads : serverPut(u)
  \/ \E u \in 1..MaxUploads : putResponse(u)
  \/ \E u \in 1..MaxUploads : serverError(u)
  \/ \E u \in 1..MaxUploads, code \in TransportCodes : fetchRejects(u, code)
  \/ \E path \in DavPaths : davDownload(path)
  \/ \E d \in 1..MaxUploads : serverGet(d)
  \/ \E d \in 1..MaxUploads : serverGetError(d)
  \/ \E d \in 1..MaxUploads : getResponse(d)
  \/ \E d \in 1..MaxUploads, code \in TransportCodes : fetchGetRejects(d, code)

SpecDav == Init /\ [][NextDav]_vars

\* ------------------------------------------------------------ isSafePath
\* A string is the sequence of its UTF-16 code units.
\* "1.20.1", "21.1.72-beta", "../etc/passwd", "a/b"
Str_1_20_1 == <<49, 46, 50, 48, 46, 49>>
Str_21_1_72_beta == <<50, 49, 46, 49, 46, 55, 50, 45, 98, 101, 116, 97>>
Str_etc_passwd == <<46, 46, 47, 101, 116, 99, 47, 112, 97, 115, 115, 119, 100>>
Str_a_b == <<97, 47, 98>>

\* the character class read with its last two characters as a range, as in
\* /[^0-9a-zA-Z_ -.]/: space to period
SafePathClassRange ==
  {<<48, 57>>, <<97, 122>>, <<65, 90>>, <<95, 95>>, <<32, 46>>}

\* the items of the class [^0-9a-zA-Z_. -] as ranges of code units:
\* 0-9, a-z, A-Z, "_", ".", " " and the final "-", which is a literal
SafePathClass ==
  {<<48, 57>>, <<97, 122>>, <<65, 90>>, <<95, 95>>, <<46, 46>>, <<32, 32>>,
   <<45, 45>>}

\* version.match(/[^0-9a-zA-Z_. -]/): the index of the first code unit the
\* negated class matches, 0 for null
Match(version) ==
  LET hits == {i \in 1..Len(version) :
                 \A r \in SafePathClass : version[i] < r[1] \/ version[i] > r[2]}
  IN IF hits = {} THEN 0 ELSE CHOOSE i \in hits : \A j \in hits : i <= j

\* export function isSafePath(version): !version.match(...)
isSafePath(version) == Match(version) = 0

\* Code units the inputs are built from: the ends of each range of the class
\* and their neighbours, path separators, a control character and two
\* letters outside ASCII
CodeUnits ==
  {10, 32, 44, 45, 46, 47, 48, 57, 58, 64, 65, 90, 91, 92, 95, 96, 97, 122,
   123, 233, 1072}

MaxLen == 2

RECURSIVE StringsUpTo(_)
StringsUpTo(n) ==
  IF n = 0 THEN {<<>>}
  ELSE LET shorter == StringsUpTo(n - 1)
       IN shorter \cup {Append(t, c) : t \in shorter, c \in CodeUnits}

VersionInputs ==
  StringsUpTo(MaxLen) \cup {Str_1_20_1, Str_21_1_72_beta, Str_etc_passwd, Str_a_b}

\* a caller evaluates isSafePath(version)
callIsSafePath(version) ==
  /\ call = NoCall
  /\ call' = [fn |-> "isSafePath", arg |-> version, result |-> isSafePath(version)]
  /\ UNCHANGED <<run, builderVars, sync, uploads, faults, depot, dav, host, api, twin>>

\* a caller awaits getJSON on the WebDAV depot while fetch settles to response
callWebDAVGetJSON(response) ==
  /\ call = NoCall
  /\ call' = [fn |-> "WebDAVDepotManager.getJSON", arg |-> response,
              result |-> [download |-> WebDAVDownload(response),
                          json |-> getJSON(WebDAVDownload(response))]]
  /\ UNCHANGED <<run, builderVars, sync, uploads, faults, depot, dav, host, api, twin>>

\* a caller awaits getJSON on the local depot while readFile settles to read
callLocalGetJSON(read) ==
  /\ call = NoCall
  /\ call' = [fn |-> "LocalDepotManager.getJSON", arg |-> read,
              result |-> [download |-> LocalDownload(read),
                          json |-> getJSON(LocalDownload(read))]]
  /\ UNCHANGED <<run, builderVars, sync, uploads, faults, depot, dav, host, api, twin>>

\* Calls of the functions that keep no state
NextCalls ==
  \/ \E version \in VersionInputs : callIsSafePath(version)
  \/ \E response \in Responses : callWebDAVGetJSON(response)
  \/ \E read \in Reads : callLocalGetJSON(read)

SpecCalls == Init /\ [][NextCalls]_vars

\* ------------------------------------------- main script: NeoForge listings
\* The version identifiers getNeoForgeVersions() may return, and the code
\* units of each
UpstreamVersions == {"1.20.1", "21.1.72-beta", "../etc/passwd", "a/b"}

CodeUnitsOf(version) ==
  CASE version = "1.20.1" -> Str_1_20_1
    [] version = "21.1.72-beta" -> Str_21_1_72_beta
    [] version = "../etc/passwd" -> Str_etc_passwd
    [] version = "a/b" -> Str_a_b

\* "neoforge/" + version
NeoForgeName(version) == "neoforge/" \o version

\* the map callback without its isSafePath test
SafeVersionsUnchecked(versions) == versions

\* the versions for which the map callback calls buildNeoForgeListing: those
\* that pass `if (!isSafePath(version)) { console.error(...); return; }`
SafeVersions(versions) == {v \in versions : isSafePath(CodeUnitsOf(v))}

\* neoforgeVersions.map(...) runs its callback on every upstream version:
\* a version is either logged and dropped or its details are requested
hostMaps(versions) ==
  /\ ~Exited
  /\ host.pc = "idle" /\ finishPc = "idle" /\ sync.pc = "idle"
  /\ host' = [pc |-> "mapped", versions |-> versions,
              logged |-> versions \ SafeVersions(versions),
              fetching |-> SafeVersions(versions)]
  /\ UNCHANGED <<run, builderVars, sync, uploads, faults, depot, dav, api, call, twin>>

\* buildNeoForgeListing(version) fulfilled: the then-callback registers the
\* listing "neoforge/" + version
neoforgeRegisters(version, p) ==
  /\ host.pc = "mapped" /\ finishPc = "idle"
  /\ version \in host.fetching
  /\ ~Registered(NeoForgeName(version))
  /\ writeListing(NeoForgeName(version), p)

\* getNeoForgeDetails(version) rejected, or the compilation of a registered
\* listing did: the Promise.all of the script rejects and the process ends
neoforgeFails ==
  /\ ~Exited
  /\ host.pc = "mapped" /\ finishPc = "idle"
  /\ \/ /\ \E v \in host.fetching : ~Registered(NeoForgeName(v))
        /\ faults < MaxFaults
        /\ faults' = faults + 1
     \/ /\ SomeRejected(Len(listings))
        /\ UNCHANGED faults
  /\ thrown' = TRUE
  /\ UNCHANGED <<run, listings, tasks, files, finishPc, finishSnap, sync, uploads,
                 depot, dav, scriptVars>>

\* `await Promise.all(neoforgeVersions.map(...))` fulfilled: every listing
\* of the map is registered and compiled; then `await listingsBuilder.finish()`
hostFinishes ==
  /\ host.pc = "mapped"
  /\ \A v \in host.fetching : Registered(NeoForgeName(v))
  /\ AllFulfilled(Len(listings))
  /\ finish

NeoForgeTaskIds == {NeoForgeName(v) : v \in UpstreamVersions} \cup {FinishTask}

\* One run of the main script over an upstream version list; the two
\* Minecraft listings of lines 313-321 are the HostNames of SpecRuns
NextHost ==
  \/ \E versions \in SUBSET UpstreamVersions : hostMaps(versions)
  \/ \E v \in UpstreamVersions, p \in Payloads : neoforgeRegisters(v, p)
  \/ neoforgeFails
  \/ \E t \in NeoForgeTaskIds : awaitContent(t)
  \/ \E t \in NeoForgeTaskIds : writeJson(t)
  \/ \E t \in NeoForgeTaskIds : writeBrotli(t)
  \/ \E t \in NeoForgeTaskIds : writeGzip(t)
  \/ \E t \in NeoForgeTaskIds : taskFails(t)
  \/ hostFinishes
  \/ finishJoined1
  \/ finishJoined2
  \/ mainSyncs
  \/ getJSONReturns
  \/ syncJoined
  \/ readFile
  \/ uploaded
  \/ indexUploaded
  \/ syncFails

SpecHost == Init /\ [][NextHost]_vars

\* ------------------------------------------------------------ VersionsApi
\* api.promises lists the promises made by client.GET(...).then(...), each
\* with its kind, its version and its state: one per HTTP request.
\* api.cache[kind] maps a version to the promise stored under it.
\* api.callers lists the calls of get<Kind>Details, each with the promise it
\* was handed and what its await has observed so far.
VersionIds == {"1.20.1", "21.1.72-beta"}

MaxCallers == 3

\* the cache test passing only for a promise that has fulfilled
CacheHitFulfilled(kind, version) ==
  /\ version \in DOMAIN api.cache[kind]
  /\ api.promises[api.cache[kind][version]].state = "fulfilled"

\* `if (this.<kind>VersionDetailsCache[version])`: a promise is stored, in
\* whatever state
CacheHit(kind, version) == version \in DOMAIN api.cache[kind]

\* get<Kind>Details(version), which runs without an await: the cached promise
\* is returned, or a request is issued and its promise is stored and returned
getDetails(kind, version) ==
  /\ Len(api.callers) < MaxCallers
  /\ IF CacheHit(kind, version)
     THEN LET p == api.cache[kind][version]
          IN api' = [api EXCEPT !.callers =
               Append(@, [kind |-> kind, version |-> version, promise |-> p,
                          settledAtCall |-> api.promises[p].state,
                          observed |-> "pending"])]
     ELSE LET p == Len(api.promises) + 1
          IN api' = [api EXCEPT
               !.promises = Append(@, [kind |-> kind, version |-> version,
                                       state |-> "pending"]),
               !.cache[kind] = [v \in DOMAIN @ \cup {version} |->
                                  IF v = version THEN p ELSE @[v]],
               !.callers =
                 Append(@, [kind |-> kind, version |-> version, promise |-> p,
                            settledAtCall |-> "pending", observed |-> "pending"])]
  /\ UNCHANGED <<run, builderVars, sync, uploads, faults, depot, dav, host, call, twin>>

\* the request of promise p is answered with data: the promise fulfils
requestSucceeds(p) ==
  /\ p \in DOMAIN api.promises /\ api.promises[p].state = "pending"
  /\ api' = [api EXCEPT !.promises[p].state = "fulfilled"]
  /\ UNCHANGED <<run, builderVars, sync, uploads, faults, depot, dav, host, call, twin>>

\* the request of promise p fails, or is answered without data and the then-
\* callback throws: the promise rejects, and stays in the cache
requestFails(p) ==
  /\ p \in DOMAIN api.promises /\ api.promises[p].state = "pending"
  /\ api' = [api EXCEPT !.promises[p].state = "rejected"]
  /\ UNCHANGED <<run, builderVars, sync, uploads, faults, depot, dav, host, call, twin>>

\* the await of caller c settles with the state of the promise it was handed
callerObserves(c) ==
  /\ c \in DOMAIN api.callers /\ api.callers[c].observed = "pending"
  /\ api.promises[api.callers[c].promise].state # "pending"
  /\ api' = [api EXCEPT !.callers[c].observed =
       api.promises[api.callers[c].promise].state]
  /\ UNCHANGED <<run, builderVars, sync, uploads, faults, depot, dav, host, call, twin>>

\* Concurrent callers of one VersionsApi
NextApi ==
  \/ \E kind \in Kinds, version \in VersionIds : getDetails(kind, version)
  \/ \E p \in 1..MaxCallers : requestSucceeds(p)
  \/ \E p \in 1..MaxCallers : requestFails(p)
  \/ \E c \in 1..MaxCallers : callerObserves(c)

SpecApi == Init /\ [][NextApi]_vars

\* ------------------------------------- a pair of runs differing in fullResync
\* The first run of the script seeds the depot.  In the second run, once the
\* listings are compiled and the depot holds an index, syncWithDepot runs
\* with one value of fullResync (run A); its uploads and the depot it leaves
\* are recorded in `twin`, the depot is put back as it was, and syncWithDepot
\* runs with the other value (run B) over the same registry and the same
\* destination folder.
twinSeeds == run = 1 /\ twin.phase = "seed" /\ mainSyncs

twinNewRun == run = 1 /\ newRun

\* the depot holds an index and the script is about to call syncWithDepot
twinBegins(fullResync) ==
  /\ ~Exited
  /\ twin.phase = "seed" /\ run = 2
  /\ finishPc = "done" /\ sync.pc = "idle"
  /\ DEPOT_INDEX_PATH \in DOMAIN depot
  /\ twin' = [IdleTwin EXCEPT !.phase = "A", !.flag = fullResync, !.depot0 = depot]
  /\ UNCHANGED <<run, builderVars, sync, uploads, faults, depot, dav, host, api, call>>

\* `await listingsBuilder.syncWithDepot(depot, cliOptions.fullResync)`
twinSyncs ==
  /\ twin.phase \in {"A", "B"}
  /\ syncWithDepot(IF twin.phase = "A" THEN twin.flag ELSE ~twin.flag)

\* run A is over: what it did is recorded, and run B starts from the depot
\* run A started from
twinRewinds ==
  /\ ~thrown
  /\ twin.phase = "A"
  /\ sync.pc \in {"done", "error", "exited"}
  /\ twin' = [twin EXCEPT !.phase = "B", !.uploads = uploads, !.depot = depot,
                          !.end = sync.pc, !.error = sync.error]
  /\ depot' = twin.depot0
  /\ uploads' = <<>>
  /\ faults' = 0
  /\ sync' = IdleSync
  /\ UNCHANGED <<run, builderVars, dav, host, api, call>>

\* a depot or filesystem call of run A or run B rejects
twinSyncFails == twin.phase \in {"A", "B"} /\ syncFails

NextTwin ==
  \/ mainRegisters
  \/ \E t \in TaskIds : awaitContent(t)
  \/ \E t \in TaskIds : writeJson(t)
  \/ \E t \in TaskIds : writeBrotli(t)
  \/ \E t \in TaskIds : writeGzip(t)
  \/ finish
  \/ finishJoined1
  \/ finishJoined2
  \/ twinSeeds
  \/ twinNewRun
  \/ \E r \in BOOLEAN : twinBegins(r)
  \/ twinSyncs
  \/ twinRewinds
  \/ twinSyncFails
  \/ getJSONReturns
  \/ syncJoined
  \/ readFile
  \/ uploaded
  \/ indexUploaded

SpecTwin == Init /\ [][NextTwin]_vars

\* ------------------------------------------------------------ properties
Range(f) == {f[k] : k \in DOMAIN f}

\* the index document the depot holds, parsed
PublishedIndex == JSONParse(BufferToString(depot[DEPOT_INDEX_PATH]))

\* the artifacts of a listing, in upload order
Artifacts(listing) ==
  [e \in 1..Len(extensionsToUpload) |-> listing.name \o "." \o extensionsToUpload[e]]

RECURSIVE AllArtifacts(_)
AllArtifacts(ls) ==
  IF ls = <<>> THEN <<>> ELSE Artifacts(Head(ls)) \o AllArtifacts(Tail(ls))

\* syncWithDepot ended for a reason other than a failing depot, filesystem
\* or compilation operation
EndedWithoutIOFailure ==
  sync.pc = "done" \/ (sync.pc = "error" /\ sync.error = "ReferenceError")

\* the baseline has, for every compiled listing, an entry of the same name,
\* sha256 and size
BaselineCoversAll ==
  /\ sync.listings # <<>>
  /\ \A k \in 1..Len(sync.listings) : SkipUpload(sync.listings[k], sync.existing)

\* C1: a sync against a depot whose index has every compiled listing with
\* the same name, sha256 and size uploads no listing artifact, uploads the
\* index to .depot-index.json and completes without error.
C1_IdempotentSync ==
  (EndedWithoutIOFailure /\ BaselineCoversAll) =>
     /\ sync.pc = "done"
     /\ uploads = <<DEPOT_INDEX_PATH>>

\* C2: in a run of syncWithDepot that completes, every compiled listing that
\* the baseline lacks, or has with another sha256 or size, has its three
\* artifacts uploaded to the depot, and the published index records its
\* sha256 and size.
C2_ChangeDetection ==
  sync.pc = "done" =>
    \A k \in 1..Len(sync.listings) :
      LET L == sync.listings[k]
      IN ~SkipUpload(L, sync.existing) =>
           /\ \A file \in {L.name \o ".json", L.name \o ".json.br", L.name \o ".json.gz"} :
                /\ file \in Range(uploads)
                /\ file \in DOMAIN depot
                /\ depot[file] = files[file]
           /\ \E j \in 1..Len(PublishedIndex) :
                /\ PublishedIndex[j].name = L.name
                /\ PublishedIndex[j].sha256 = L.sha256
                /\ PublishedIndex[j].size = L.size

\* a completed run that found a listing in the baseline under another sha256
C2_Witness ==
  /\ sync.pc = "done"
  /\ \E k \in 1..Len(sync.listings) :
       LET L == sync.listings[k]
       IN /\ L.name \in DOMAIN existingListings(sync.existing)
          /\ existingListings(sync.existing)[L.name].sha256 # L.sha256
          /\ L.name \o ".json" \in Range(uploads)

\* C3: without .depot-index.json in the depot and without fullResync the run
\* is terminated with no upload issued, and syncWithDepot goes on only with
\* fullResync; on an empty baseline it uploads the three artifacts of every
\* compiled listing and then the index.
C3_MissingIndexGuard ==
  /\ sync.pc = "exited" =>
       /\ ~sync.fullResync
       /\ uploads = <<>>
       /\ DEPOT_INDEX_PATH \notin DOMAIN depot
  /\ (sync.pc \in {"join", "read", "upload", "putIndex"} /\ ~sync.fullResync) =>
       DEPOT_INDEX_PATH \in DOMAIN depot
  /\ (sync.pc = "done" /\ sync.existing = <<>>) =>
       /\ uploads = AllArtifacts(sync.listings) \o <<DEPOT_INDEX_PATH>>
       /\ \A file \in Range(uploads) : file \in DOMAIN depot

\* the guard fired although two listings were compiled and ready
C3_Witness ==
  /\ sync.pc = "exited"
  /\ Len(listings) = 2
  /\ AllFulfilled(2)

\* C4: after a run that completes, the document at .depot-index.json holds
\* exactly the descriptors of the listings registered in this run, one per
\* name, ordered by name; no baseline entry is merged in.
C4_IndexIsReplacement ==
  sync.pc = "done" =>
    /\ Len(PublishedIndex) = Len(listings)
    /\ \A k \in 1..Len(listings) :
         \E j \in 1..Len(PublishedIndex) : PublishedIndex[j] = listings[k].value[1]
    /\ \A j \in 1..Len(PublishedIndex) : \A h \in (j + 1)..Len(PublishedIndex) :
         localeCompare(PublishedIndex[j].name, PublishedIndex[h].name) < 0

\* a completed run whose baseline had a listing this run did not produce
C4_Witness ==
  /\ sync.pc = "done"
  /\ Len(listings) >= 1
  /\ \E j \in 1..Len(sync.existing) : ~Registered(sync.existing[j].name)


\* the upload of the index is the last upload issued, it is issued once, and
\* by then every artifact of every compiled listing has reached the depot; a
\* run that failed before it issued none
C5_IndexLast ==
  /\ DEPOT_INDEX_PATH \in Range(uploads) =>
       /\ uploads = AllArtifacts(sync.listings) \o <<DEPOT_INDEX_PATH>>
       /\ \A k \in 1..(Len(uploads) - 1) :
            uploads[k] \in DOMAIN depot
       /\ sync.pc \in {"putIndex", "done"} \/ (sync.pc = "error" /\ sync.error = "putIndex")
  /\ (sync.pc = "error" /\ sync.error # "putIndex") =>
       /\ DEPOT_INDEX_PATH \notin Range(uploads)
       /\ DEPOT_INDEX_PATH \notin DOMAIN depot
  /\ (sync.pc = "error" /\ sync.error \in {"getJSON", "listing"}) => uploads = <<>>
  /\ sync.pc \in {"idle", "getJSON", "join"} => uploads = <<>>

\* C5: the index upload is issued only after every artifact upload has
\* completed; once the baseline fetch, a compilation, a read-back or an
\* artifact upload has failed, the run has ended with that error: it issues
\* no further upload, publishes no index and retries nothing.
C5_NoPartialPublish ==
  /\ [](C5_IndexLast)
  /\ [][sync.pc = "error" => (sync' = sync /\ uploads' = uploads /\ depot' = depot)]_vars

\* an artifact upload failed after another artifact had reached the depot
C5_Witness ==
  /\ sync.pc = "error"
  /\ sync.error = "upload"
  /\ Len(uploads) >= 2
  /\ uploads[1] \in DOMAIN depot

\* C6: writeListing with a name that is registered throws at once and
\* changes neither the registry nor the destination folder nor the running
\* compilations; a registered name keeps its entry and its compilation.
C6_DuplicateRegistration ==
  [][/\ \A n \in Names : (Registered(n) /\ writeListing(n, 1)) => thrown'
     /\ (thrown' /\ ~thrown) => UNCHANGED <<listings, tasks, files>>
     /\ \A k \in 1..Len(listings) :
          /\ Len(listings') >= k
          /\ listings'[k].name = listings[k].name
          /\ \A j \in 1..Len(listings') : listings'[j].name = listings[k].name => j = k
          /\ listings[k].name \in DOMAIN tasks' =>
               /\ listings[k].name \in DOMAIN tasks
               /\ tasks'[listings[k].name].content = tasks[listings[k].name].content
               /\ tasks[listings[k].name].pc # "content" =>
                    tasks'[listings[k].name].pc # "content"]_vars

\* a second writeListing threw while the first compilation had written its
\* JSON file and was still running
C6_Witness ==
  /\ thrown
  /\ \E n \in DOMAIN tasks : tasks[n].pc = "br" /\ Registered(n)

\* C7: after finish() has completed, the name "index" is in the registry.
C7_FinishRegistersIndex ==
  finishPc = "done" => Registered("index")

\* C8: once every writeListing and finish call has resolved, the sha256 and
\* size of each FileDescriptor of each descriptor of the registry are those
\* of the bytes the destination folder holds at its url when syncWithDepot
\* reads them back.
C8_ContentAddressing ==
  (sync.pc = "read" /\ tasks = <<>> /\ finishPc \in {"idle", "done"}) =>
    \A k \in 1..Len(listings) :
      listings[k].state = "fulfilled" =>
        LET d == listings[k].value[1]
        IN \A fd \in {[url |-> d.url, size |-> d.size, sha256 |-> d.sha256],
                      d.brotli, d.gzip} :
             /\ fd.url \in DOMAIN files
             /\ sha256(files[fd.url]) = fd.sha256
             /\ BufferLength(files[fd.url]) = fd.size

C10_DirectoryCreationIdempotent ==
  dav.faults = 0 =>
    \A u \in DOMAIN dav.frames :
      LET f == dav.frames[u]
      IN /\ f.pc # "failed"
         /\ f.pc = "mkcolResponse" => f.status \in {201, 405}
         /\ f.pc = "putResponse" => f.status \in {201, 204}
         /\ f.pc = "done" => f.path \in dav.objects

\* two uploads of different files into the same new directory are done; the
\* MKCOL of one was answered 201, that of the other 405
C10_Witness ==
  \E u, v \in DOMAIN dav.frames :
    /\ dav.frames[u].pc = "done" /\ dav.frames[v].pc = "done"
    /\ dav.frames[u].path # dav.frames[v].path
    /\ Dirname(dav.frames[u].path) = Dirname(dav.frames[v].path)
    /\ 201 \in dav.frames[u].seen
    /\ dav.frames[v].seen = {405}
    /\ dav.faults = 0

\* ---- History of the MKCOL requests of the upload calls ----

\* the prefixes of path's directory, parent first
AncestorPrefixes(path) ==
  {CurrentPath(Parts(Dirname(path)), k) : k \in 1..Len(Parts(Dirname(path)))}

\* the upload was rejected by the MKCOL it had in flight
FailedAtMkcol(f) ==
  f.pc = "failed" /\ f.k <= Len(Parts(Dirname(f.path)))

\* the MKCOL requests of frame f for prefix p that did not fail
MkcolsNotFailed(f, p) ==
  {i \in 1..Len(f.sent) :
     f.sent[i] = p /\ ~(FailedAtMkcol(f) /\ i = Len(f.sent))}

MkcolReturnedOk(f, p) ==
  \E i \in 1..Len(f.sent) :
    /\ f.sent[i] = p
    /\ i < Len(f.sent) \/ f.k > Len(Parts(Dirname(f.path)))

\* C12: createdDirectories holds only prefixes whose MKCOL returned 201 or
\* 405 (and so collections the server has); an upload fails only on a request
\* that itself failed, never on what an earlier failed upload left behind;
\* and an upload that reaches its PUT in a sequence of uploads has sent MKCOL
\* for every ancestor prefix that was not memoized when it started.
C12_FailedWriteDoesNotBlockRetry ==
  /\ \A m \in dav.createdDirectories :
       /\ m.segs \in dav.collections
       /\ \E u \in DOMAIN dav.frames : MkcolReturnedOk(dav.frames[u], m)
  /\ \A u \in DOMAIN dav.frames :
       LET f == dav.frames[u]
       IN /\ f.status \in {0, 201, 204, 405, 500}
          /\ f.pc = "failed" => f.status = 500 \/ f.error = "fetch failed"
          /\ f.pc \in {"put", "putResponse", "done"} =>
               /\ AncestorPrefixes(f.path) \subseteq dav.createdDirectories
               /\ dav.serial =>
                    AncestorPrefixes(f.path) \ f.known \subseteq Range(f.sent)

\* an upload failed on the MKCOL of a prefix; the retry of the same path sent
\* MKCOL for that prefix again and stored the object
C12_Witness ==
  /\ dav.serial
  /\ \E u, v \in DOMAIN dav.frames :
       /\ u < v
       /\ dav.frames[u].path = dav.frames[v].path
       /\ FailedAtMkcol(dav.frames[u])
       /\ dav.frames[v].pc = "done"
       /\ dav.frames[u].sent[Len(dav.frames[u].sent)] \in Range(dav.frames[v].sent)
       /\ dav.frames[v].path \in dav.objects
\* the PUT of frame f has been issued
PutIssued(f) ==
  f.pc \in {"put", "putResponse", "done"} \/ (f.pc = "failed" /\ ~FailedAtMkcol(f))

\* C18: an upload issues its PUT only when every ancestor prefix of the path
\* is in createdDirectories of this instance, each put there by a MKCOL that
\* returned 201 or 405; the MKCOLs of one upload go parent before child, each
\* issued when all shallower prefixes are memoized, so the server never
\* answers 409; a path without a directory component issues no MKCOL.
C18_WriteOrdering ==
  \A u \in DOMAIN dav.frames :
    LET f == dav.frames[u]
        parts == Parts(Dirname(f.path))
    IN /\ PutIssued(f) =>
            \A p \in AncestorPrefixes(f.path) :
              /\ p \in dav.createdDirectories
              /\ \E v \in DOMAIN dav.frames : MkcolReturnedOk(dav.frames[v], p)
       /\ \A i, j \in 1..Len(f.sent) :
            i < j => Len(f.sent[i].segs) < Len(f.sent[j].segs)
       /\ f.pc \in {"mkcol", "mkcolResponse"} =>
            /\ f.sent[Len(f.sent)] = CurrentPath(parts, f.k)
            /\ \A j \in 1..(f.k - 1) :
                 CurrentPath(parts, j) \in dav.createdDirectories
       /\ f.status # 409
       /\ Dirname(f.path) = <<>> => f.sent = <<>> /\ f.k = 1

\* an upload two directories deep has sent both MKCOLs, parent first, and
\* its PUT; an upload of a path without directory went straight to its PUT
C18_Witness ==
  \E u, v \in DOMAIN dav.frames :
    /\ dav.frames[u].pc = "done"
    /\ Len(dav.frames[u].sent) = 2
    /\ Len(dav.frames[u].sent[1].segs) = 1
    /\ Len(dav.frames[u].sent[2].segs) = 2
    /\ Dirname(dav.frames[v].path) = <<>>
    /\ dav.frames[v].pc = "done"
    /\ dav.frames[v].sent = <<>>
\* C13: with every listing registered before syncWithDepot is called, and
\* the compilations settling in any order during the call, no depot upload is
\* issued while a registered listing is pending, the loop runs over exactly
\* the registered listings in registration order, and a rejected compilation
\* means no upload at all.
C13_Barrier ==
  /\ uploads # <<>> => AllFulfilled(Len(listings))
  /\ sync.pc \in {"read", "upload", "putIndex", "done"} =>
       /\ AllFulfilled(Len(listings))
       /\ sync.listings = Values(Len(listings))
  /\ SomeRejected(Len(listings)) => uploads = <<>> /\ depot = <<>>

\* syncWithDepot waits at its Promise.all: the listing registered second is
\* compiled, the one registered first is still pending
C13_WitnessWaiting ==
  /\ sync.pc = "join"
  /\ Len(listings) = 2
  /\ listings[1].state = "pending"
  /\ listings[2].state = "fulfilled"

\* syncWithDepot uploads after both listings were compiled
C13_Witness ==
  /\ sync.pc = "upload"
  /\ Len(sync.listings) = 2
  /\ uploads # <<>>
\* the kinds of character the path rule admits
IsAsciiLetter(c) == c \in 65..90 \/ c \in 97..122
IsDigit(c) == c \in 48..57
IsUnderscorePeriodHyphenSpace(c) == c \in {95, 46, 45, 32}

\* C15: isSafePath(s) is true exactly when every character of s is an ASCII
\* letter, a digit, an underscore, a period, a hyphen or a space; it accepts
\* "1.20.1" and "21.1.72-beta" and rejects "../etc/passwd" and "a/b".
C15_SafePathCharacters ==
  call.fn = "isSafePath" =>
    /\ call.result =
         \A i \in 1..Len(call.arg) :
           \/ IsAsciiLetter(call.arg[i])
           \/ IsDigit(call.arg[i])
           \/ IsUnderscorePeriodHyphenSpace(call.arg[i])
    /\ call.arg \in {Str_1_20_1, Str_21_1_72_beta} => call.result = TRUE
    /\ call.arg \in {Str_etc_passwd, Str_a_b} => call.result = FALSE

\* isSafePath has rejected "../etc/passwd"
C15_Witness ==
  call.fn = "isSafePath" /\ call.arg = Str_etc_passwd /\ call.result = FALSE
\* C16: on both depots download and getJSON return undefined, and do not
\* throw, for an object that is absent; the WebDAV depot takes only status
\* 404 for absent and throws on every other status outside 200..299; the
\* local depot takes only ENOENT for absent and rethrows every other error.
C16_NotFoundIsAResult ==
  /\ call.fn = "WebDAVDepotManager.getJSON" =>
       LET absent == call.arg.kind = "response" /\ call.arg.status = 404
       IN /\ absent <=> call.result.download = Returned(<<>>)
          /\ absent <=> call.result.json = Returned(<<>>)
          /\ (call.arg.kind = "response" /\ call.arg.status \notin 200..299 /\ ~absent)
               => /\ call.result.download.kind = "throw"
                  /\ call.result.json.kind = "throw"
  /\ call.fn = "LocalDepotManager.getJSON" =>
       LET absent == call.arg.kind = "error" /\ call.arg.code = "ENOENT"
       IN /\ absent <=> call.result.download = Returned(<<>>)
          /\ absent <=> call.result.json = Returned(<<>>)
          /\ (call.arg.kind = "error" /\ ~absent)
               => /\ call.result.download = Thrown("readFile", call.arg.code)
                  /\ call.result.json = call.result.download

\* getJSON on the WebDAV depot returned undefined for a 404
C16_Witness ==
  /\ call.fn = "WebDAVDepotManager.getJSON"
  /\ call.arg.status = 404
  /\ call.result.json = Returned(<<>>)
\* the files and depot objects a listing of that name would have
ArtifactPaths(name) == {name \o ".json", name \o ".json.br", name \o ".json.gz"}

\* C14: once the script has mapped the upstream NeoForge versions, a version
\* that fails isSafePath is logged, is never registered, has no compilation
\* running and no file in the destination folder or the depot, and does not
\* end the run; a version that passes is requested, and by the time finish()
\* is called it is registered under "neoforge/" + version; no other name is
\* ever registered.
C14_UnsafeVersionsSkipped ==
  host.pc = "mapped" =>
    /\ \A v \in host.versions :
         IF isSafePath(CodeUnitsOf(v))
         THEN /\ v \in host.fetching /\ v \notin host.logged
              /\ finishPc # "idle" => Registered(NeoForgeName(v))
         ELSE /\ v \in host.logged /\ v \notin host.fetching
              /\ ~Registered(NeoForgeName(v))
              /\ NeoForgeName(v) \notin DOMAIN tasks
              /\ ArtifactPaths(NeoForgeName(v)) \cap (DOMAIN files \cup DOMAIN depot) = {}
    /\ \A k \in 1..Len(listings) :
         \E v \in host.versions :
           isSafePath(CodeUnitsOf(v)) /\ listings[k].name = NeoForgeName(v)
    /\ thrown => faults > 0

\* upstream returned two unsafe and two safe identifiers; the run published
\* the two safe ones
C14_Witness ==
  /\ host.versions = UpstreamVersions
  /\ host.logged = {"../etc/passwd", "a/b"}
  /\ sync.pc = "done"
  /\ {PublishedIndex[k].name : k \in DOMAIN PublishedIndex}
       = {"neoforge/1.20.1", "neoforge/21.1.72-beta"}
\* C17: a fetch that cannot reach the server (ENOTFOUND, ECONNREFUSED)
\* during any operation of the WebDAV depot, download as well as the MKCOL
\* and PUT of upload, surfaces as the "Cannot connect to WebDAV server"
\* error, which differs from the errors raised for a 4xx/5xx status.
C17_ConnectivityTranslated ==
  /\ \A d \in DOMAIN dav.reads :
       LET r == dav.reads[d]
       IN /\ (r.pc = "settled" /\ r.cause \in TransportCodes)
               => r.result = Thrown("Cannot connect to WebDAV server", "")
          /\ (r.pc = "settled" /\ r.status >= 400 /\ r.status # 404)
               => r.result = Thrown("WebDAV GET failed", "")
  /\ \A u \in DOMAIN dav.frames :
       LET f == dav.frames[u]
       IN /\ (f.pc = "failed" /\ f.cause \in TransportCodes)
               => f.error = "Cannot connect to WebDAV server"
          /\ (f.pc = "failed" /\ f.status >= 400)
               => f.error \in {"WebDAV MKCOL failed", "WebDAV PUT failed"}

\* the part of C17 that holds: download translates the two causes
C17_DownloadTranslated ==
  \A d \in DOMAIN dav.reads :
    LET r == dav.reads[d]
    IN /\ (r.pc = "settled" /\ r.cause \in TransportCodes)
            => r.result = Thrown("Cannot connect to WebDAV server", "")
       /\ (r.pc = "settled" /\ r.status >= 400 /\ r.status # 404)
            => r.result = Thrown("WebDAV GET failed", "")
\* the depot holds at the descriptor's path bytes of its size and digest
Describes(d) ==
  /\ d.url \in DOMAIN depot
  /\ sha256(depot[d.url]) = d.sha256
  /\ BufferLength(depot[d.url]) = d.size

C20_SingleFlightCache ==
  /\ \A p, q \in DOMAIN api.promises :
       (api.promises[p].kind = api.promises[q].kind
          /\ api.promises[p].version = api.promises[q].version) => p = q
  /\ \A p \in DOMAIN api.promises :
       api.cache[api.promises[p].kind][api.promises[p].version] = p
  /\ \A c, d \in DOMAIN api.callers :
       (api.callers[c].kind = api.callers[d].kind
          /\ api.callers[c].version = api.callers[d].version)
         => /\ api.callers[c].promise = api.callers[d].promise
            /\ (api.callers[c].observed # "pending" /\ api.callers[d].observed # "pending")
                 => api.callers[c].observed = api.callers[d].observed
  /\ \A c \in DOMAIN api.callers :
       /\ api.promises[api.callers[c].promise].kind = api.callers[c].kind
       /\ api.promises[api.callers[c].promise].version = api.callers[c].version
       /\ api.callers[c].observed \in {"pending", api.promises[api.callers[c].promise].state}

\* two callers for one version while the request was in flight and a third
\* after it had failed: one request, and all three have observed the failure
C20_Witness ==
  /\ Len(api.promises) = 1
  /\ Len(api.callers) = 3
  /\ api.callers[1].settledAtCall = "pending"
  /\ api.callers[2].settledAtCall = "pending"
  /\ api.callers[3].settledAtCall = "rejected"
  /\ \A c \in 1..3 : api.callers[c].observed = "rejected"
\* one sequence is an initial part of the other
PrefixComparable(s, t) ==
  \A k \in 1..(IF Len(s) < Len(t) THEN Len(s) ELSE Len(t)) : s[k] = t[k]

\* the run ended with no depot or filesystem call having been failed
EndedByItself(pc, error) ==
  pc \in {"done", "exited"} \/ (pc = "error" /\ error \in {"ReferenceError", "ENOENT"})

\* the index the depot held when the pair of runs started
TwinBaseline == JSONParse(BufferToString(twin.depot0[DEPOT_INDEX_PATH]))

\* C21: with an index in the depot, two syncWithDepot runs over the same
\* compiled listings and from the same depot state that differ in fullResync
\* only never call process.exit, both take the index as their baseline, issue
\* the same uploads in the same order as far as each gets, and, when no call
\* of either was failed, end the same way with the same uploads and the same
\* depot; in neither run is a file of a listing uploaded whose sha256 and
\* size match the baseline.
C21_ResyncFlagIrrelevantWithIndex ==
  /\ twin.phase \in {"A", "B"} =>
       /\ sync.pc # "exited"
       /\ sync.pc \in {"join", "read", "upload", "putIndex", "done"}
            => sync.existing = TwinBaseline
       /\ \A i \in 1..Len(sync.listings) :
            SkipUpload(sync.listings[i], TwinBaseline)
              => ArtifactPaths(sync.listings[i].name) \cap Range(uploads) = {}
  /\ twin.phase = "B" =>
       /\ PrefixComparable(uploads, twin.uploads)
       /\ (EndedByItself(twin.end, twin.error) /\ EndedByItself(sync.pc, sync.error))
            => /\ sync.pc = twin.end
               /\ sync.error = twin.error
               /\ uploads = twin.uploads
               /\ depot = twin.depot

\* run A with fullResync and run B without it both completed, with the same
\* uploads and the same depot
C21_Witness ==
  /\ twin.phase = "B"
  /\ twin.flag
  /\ twin.end = "done" /\ sync.pc = "done"
  /\ ~sync.fullResync
  /\ Len(twin.uploads) > 1
  /\ uploads = twin.uploads
  /\ depot = twin.depot
  /\ depot # twin.depot0

\* a listing matches the baseline: with fullResync as without it, none of
\* its files was uploaded and the run ended in the skip branch
C21_WitnessMatching ==
  /\ twin.phase = "B"
  /\ twin.flag
  /\ twin.end = "error" /\ twin.error = "ReferenceError"
  /\ sync.pc = "error" /\ sync.error = "ReferenceError"
  /\ \E i \in 1..Len(sync.listings) : SkipUpload(sync.listings[i], TwinBaseline)

====
